---- MODULE Spec2Model ----
(***************************************************************************)
(* Orchestration core of the forensic simulation server: the process      *)
(* supervisor (ProcessManager) and the workflow engine (WorkflowManager)   *)
(* of app_controller.js.                                                   *)
(*                                                                         *)
(* Execution model: Node.js runs one macrotask (an HTTP handler, a timer,  *)
(* a child-process event) at a time and drains every promise continuation  *)
(* it queued before the next macrotask starts.  The variable `task` holds  *)
(* the continuation of the async call that is suspended at an `await` on   *)
(* an already settled promise; while it is not Idle only that continuation *)
(* can run, so the intermediate states (INITIALIZING, STOPPING, stopping)  *)
(* are states of the model but no timer or callback interleaves there.     *)
(***************************************************************************)
EXTENDS Naturals, Integers, Sequences, FiniteSets, TLC

(* ------------------------------- bounds -------------------------------- *)
\* config.systemConfig.maxConcurrentProcesses (configured; the code's default is 5)
maxConcurrent ==
    2
\* process ids the model allocates beyond maxConcurrent
ExtraProcs ==
    1
\* number of process ids the model ever allocates
MaxProcs ==
    maxConcurrent + ExtraProcs
\* number of workflow ids the model ever allocates
MaxWorkflows ==
    2
\* number of API calls made in one run
MaxCalls ==
    4

\* LogSpec: the processes started, the API calls made, and a worker stops
\* writing once its log has this many entries
LogProcs ==
    1
LogCalls ==
    3
MaxLogged ==
    4

\* RingSpec: the worker stops writing once its log has this many entries, and
\* it reports progress on stdout once per ReportEvery entries
MaxAppends ==
    1500
ReportEvery ==
    500

\* RuleSpec: the records of the anomaly file and of the artifact file
MaxAnomalies ==
    2
MaxArtifacts ==
    2

\* HttpSpec: the requests served
MaxRequests ==
    2

ProcIds ==
    1..MaxProcs
WfIds ==
    1..MaxWorkflows

\* number of times 'start' is emitted on the pipeline engine
MaxRuns ==
    3

\* number of POST /start and POST /stop requests
MaxToggles ==
    8

(* ----------------------------- vocabulary ------------------------------ *)
INITIALIZING == "initializing"
RUNNING == "running"
PAUSED == "paused"
STOPPING == "stopping"
ERROR == "error"
COMPLETED == "completed"

\* the five cases of the switch in startProcess
ProcessTypes ==
    {"disk-imaging", "memory-dump", "network-capture", "log-analysis", "malware-scan"}
\* process types a caller passes to startProcess; "bogus" reaches the default case
StartInputs ==
    {"log-analysis", "bogus"}
pausableProcesses ==
    {"disk-imaging", "network-capture", "log-analysis"}
\* how a worker ends: exit code 0, a non-zero exit code, or death by signal (code null)
ExitKinds ==
    {"ok", "fail", "signal"}
\* progress percentages that a worker prints: a milestone and one above 100
ProgressInputs ==
    {50, 120}

\* percentages an API caller passes to updateProcessProgress
PctInputs ==
    {0 - 25, 30, 50, 120}

VARIABLES
    activeProcesses,   \* Map processId -> processInfo
    nextProc,          \* next fresh process id (ids are never reused)
    workers,           \* the child process behind each id
    purgeTimers,       \* ids with a pending setTimeout(delete, 3600000)
    workflowStates,    \* Map workflowId -> workflow record
    nextWf,            \* next fresh workflow id
    wfLoop,            \* where each workflow's step loop is suspended
    subPolls,          \* per workflow: processes polled by the sub-steps of its parallel step
    task,              \* the async call suspended at an await of the running macrotask
    calls,             \* number of API calls made so far
    processLogs,       \* Map processId -> log entries, oldest first
    logged,            \* per process id: number of entries ever appended
    rules,             \* decision tree: the records loaded and the alerts written
    http,              \* router: the responses sent so far
    engine,            \* pipeline engine: per emitted 'start' the step reached and the console lines
    sim                \* simulation toggle: the flag, the pending timers, the runs

vars ==
    <<activeProcesses, nextProc, workers, purgeTimers, workflowStates, nextWf, wfLoop, subPolls, task, calls,
      processLogs, logged, rules, http, engine, sim>>

Idle ==
    [op |-> "idle", id |-> 0, wf |-> 0, idx |-> 0]
\* an API call arrives as a macrotask of its own
ApiCall ==
    /\ task = Idle
    /\ calls < MaxCalls
    /\ calls' = calls + 1

Terminal ==
    {COMPLETED, ERROR}
NonTerminalCount ==
    Cardinality({p \in DOMAIN activeProcesses : activeProcesses[p].state \notin Terminal})

Min(a, b) ==
    IF a < b THEN a ELSE b
Max(a, b) ==
    IF a > b THEN a ELSE b

\* activeProcesses.set(id, info)
MapSet(m, k, v) ==
    [x \in (DOMAIN m) \cup {k} |-> IF x = k THEN v ELSE m[x]]
\* activeProcesses.delete(id)
MapDelete(m, k) ==
    [x \in (DOMAIN m) \ {k} |-> m[x]]

\* a write of processInfo.state
WriteState(info, s) ==
    [info EXCEPT !.state = s]

(* ------------------------- ProcessManager ------------------------------ *)
\* the capacity test of startProcess
AtCapacityOffByOne ==
    Cardinality(DOMAIN activeProcesses) > maxConcurrent
AtCapacity ==
    Cardinality(DOMAIN activeProcesses) >= maxConcurrent

NewProcessInfo(type) ==
    [type |-> type, state |-> INITIALIZING, progress |-> 0, pid |-> FALSE,
     error |-> "none", ended |-> FALSE]

\* startProcess up to its await: record creation and spawn, once the capacity
\* test has passed.  w is the workflow whose process step makes the call, 0 for
\* an API caller.  The launcher is taken to spawn the worker (the node binary
\* is there), so the child has a pid and its 'error' event is never emitted.
startProcessBegin(type, w) ==
    /\ nextProc <= MaxProcs
    /\ activeProcesses' = MapSet(activeProcesses, nextProc, NewProcessInfo(type))
    /\ workers' = [workers EXCEPT ![nextProc] = "alive"]
    /\ nextProc' = nextProc + 1
    /\ task' = [op |-> "startProcess", id |-> nextProc, wf |-> w, idx |-> 0]

\* startProcess called by an API caller
startProcess(type) ==
    /\ ApiCall
    /\ UNCHANGED <<purgeTimers, workflowStates, nextWf, wfLoop, subPolls>>
    /\ IF AtCapacity
       THEN \* throws 'Maximum concurrent processes reached'
            UNCHANGED <<activeProcesses, nextProc, workers, task>>
       ELSE IF type \notin ProcessTypes
       THEN \* the record is created before the switch throws and is left behind
            /\ nextProc <= MaxProcs
            /\ activeProcesses' = MapSet(activeProcesses, nextProc, NewProcessInfo(type))
            /\ nextProc' = nextProc + 1
            /\ UNCHANGED <<workers, task>>
       ELSE startProcessBegin(type, 0)

\* startProcess after its await: RUNNING, pid attached, monitoring set up;
\* for a process step the id is pushed to the workflow and the poll interval
\* starts.  task.idx is the last id that the sub-steps of a parallel step
\* created: their continuations run one after the other.
startProcessFinish ==
    /\ UNCHANGED calls
    /\ task.op = "startProcess"
    /\ LET p == task.id
           info == activeProcesses[p]
           w == task.wf
       IN  /\ activeProcesses' = MapSet(activeProcesses, p,
                  [WriteState(info, RUNNING) EXCEPT !.pid = TRUE])
           /\ IF w = 0
              THEN UNCHANGED <<workflowStates, wfLoop, subPolls>>
              ELSE /\ workflowStates' = [workflowStates EXCEPT ![w].processes = Append(@, p)]
                   /\ IF wfLoop[w] = "step"
                      THEN /\ wfLoop' = [wfLoop EXCEPT ![w] = "poll"]
                           /\ UNCHANGED subPolls
                      ELSE IF wfLoop[w] = "join"
                      THEN /\ subPolls' = [subPolls EXCEPT ![w] = @ \cup {p}]
                           /\ UNCHANGED wfLoop
                      ELSE \* the parallel step was rejected already
                           UNCHANGED <<wfLoop, subPolls>>
    /\ task' = IF task.id < task.idx THEN [task EXCEPT !.id = @ + 1] ELSE Idle
    /\ UNCHANGED <<nextProc, workers, purgeTimers, nextWf>>

\* process.kill(pid) with the default signal; a SIGSTOPped worker keeps the
\* SIGTERM pending
Kill(w) ==
    CASE w = "alive" -> "dying"
      [] w = "paused" -> "pausedDying"
      [] OTHER -> w

\* stopProcess up to its await: STOPPING and the kill.  w and idx locate the
\* caller inside stopWorkflow's loop, 0 for an API caller.
stopProcessBegin(p, w, idx) ==
    /\ activeProcesses' = MapSet(activeProcesses, p, WriteState(activeProcesses[p], STOPPING))
    /\ workers' = [workers EXCEPT ![p] = IF activeProcesses[p].pid THEN Kill(@) ELSE @]
    /\ task' = [op |-> "stopProcess", id |-> p, wf |-> w, idx |-> idx]

\* stopProcess called by an API caller; an unknown id returns false
stopProcess(p) ==
    /\ ApiCall
    /\ UNCHANGED <<nextProc, purgeTimers, workflowStates, nextWf, wfLoop, subPolls>>
    /\ IF p \notin DOMAIN activeProcesses
       THEN UNCHANGED <<activeProcesses, workers, task>>
       ELSE stopProcessBegin(p, 0, 0)

\* the final write of stopProcess after cleanup
StopFinalWriteNone(info) ==
    info
StopFinalWrite(info) ==
    [WriteState(info, COMPLETED) EXCEPT !.progress = 100, !.ended = TRUE]

\* stopProcess after its await on _cleanupProcess: final state, purge timer,
\* return true (to the API caller or into stopWorkflow's loop)
stopProcessFinish ==
    /\ UNCHANGED calls
    /\ task.op = "stopProcess"
    /\ LET p == task.id
       IN  /\ activeProcesses' = MapSet(activeProcesses, p, StopFinalWrite(activeProcesses[p]))
           /\ purgeTimers' = purgeTimers \cup {p}
           /\ task' = IF task.wf = 0
                      THEN Idle
                      ELSE [op |-> "stopWorkflow", id |-> 0, wf |-> task.wf, idx |-> task.idx + 1]
    /\ UNCHANGED <<nextProc, workers, workflowStates, nextWf, wfLoop, subPolls>>

\* the tests of pauseProcess: true when it goes on to SIGSTOP and PAUSED
CanPauseAnyType(p) ==
    /\ p \in DOMAIN activeProcesses
    /\ activeProcesses[p].state = RUNNING
    /\ activeProcesses[p].pid
CanPauseAnyState(p) ==
    /\ p \in DOMAIN activeProcesses
    /\ activeProcesses[p].type \in pausableProcesses
    /\ activeProcesses[p].pid
CanPause(p) ==
    /\ p \in DOMAIN activeProcesses
    /\ activeProcesses[p].state = RUNNING
    /\ activeProcesses[p].type \in pausableProcesses
    /\ activeProcesses[p].pid

pauseProcess(p) ==
    /\ ApiCall
    /\ UNCHANGED <<nextProc, purgeTimers, workflowStates, nextWf, wfLoop, subPolls, task>>
    /\ IF CanPause(p)
       THEN /\ activeProcesses' = MapSet(activeProcesses, p, WriteState(activeProcesses[p], PAUSED))
            /\ workers' = [workers EXCEPT ![p] = IF @ = "alive" THEN "paused" ELSE @]
       ELSE UNCHANGED <<activeProcesses, workers>>

\* the tests of resumeProcess: true when it goes on to SIGCONT and RUNNING
CanResumeAnyState(p) ==
    /\ p \in DOMAIN activeProcesses
    /\ activeProcesses[p].pid
CanResume(p) ==
    /\ p \in DOMAIN activeProcesses
    /\ activeProcesses[p].state = PAUSED
    /\ activeProcesses[p].pid

resumeProcess(p) ==
    /\ ApiCall
    /\ UNCHANGED <<nextProc, purgeTimers, workflowStates, nextWf, wfLoop, subPolls, task>>
    /\ IF CanResume(p)
       THEN /\ activeProcesses' = MapSet(activeProcesses, p, WriteState(activeProcesses[p], RUNNING))
            /\ workers' = [workers EXCEPT ![p] = IF @ = "paused" THEN "alive" ELSE @]
       ELSE UNCHANGED <<activeProcesses, workers>>

\* 'exit' callback of _monitorProcess.  A running worker exits with code 0 or
\* non-zero; a worker that was sent SIGTERM dies by the signal (code null) or
\* handles it and exits with code 0.
ExitMessage(kind) ==
    IF kind = "fail"
    THEN "Process exited with code 1 (signal: null)"
    ELSE "Process exited with code null (signal: SIGTERM)"

\* what the 'exit' callback writes to a record of the registry
ExitWriteKeepsProgress(info, kind) ==
    IF kind = "ok"
    THEN [WriteState(info, COMPLETED) EXCEPT !.ended = TRUE]
    ELSE [WriteState(info, ERROR) EXCEPT !.error = ExitMessage(kind), !.ended = TRUE]
ExitWrite(info, kind) ==
    IF kind = "ok"
    THEN [WriteState(info, COMPLETED) EXCEPT !.progress = 100, !.ended = TRUE]
    ELSE [WriteState(info, ERROR) EXCEPT !.error = ExitMessage(kind), !.ended = TRUE]

monitorExit(p, kind) ==
    /\ UNCHANGED calls
    /\ task = Idle
    /\ \/ workers[p] = "alive" /\ kind \in {"ok", "fail"}
       \/ workers[p] = "dying" /\ kind \in {"ok", "signal"}
    /\ workers' = [workers EXCEPT ![p] = "done"]
    /\ IF p \in DOMAIN activeProcesses
       THEN activeProcesses' = MapSet(activeProcesses, p, ExitWrite(activeProcesses[p], kind))
       ELSE UNCHANGED activeProcesses
    /\ UNCHANGED <<nextProc, purgeTimers, workflowStates, nextWf, wfLoop, subPolls, task>>

updateProcessProgressNoFloor(info, progress) ==
    [info EXCEPT !.progress = Min(progress, 100)]
updateProcessProgress(info, progress) ==
    [info EXCEPT !.progress = Min(Max(progress, 0), 100)]

\* 'data' callback of the worker's stdout for a line "progress: <n>"; the pipe
\* may still deliver what the worker wrote before it was stopped or exited
monitorStdout(p, progress) ==
    /\ UNCHANGED calls
    /\ task = Idle
    /\ workers[p] # "none"
    /\ IF p \in DOMAIN activeProcesses
       THEN activeProcesses' = MapSet(activeProcesses, p,
                                     updateProcessProgress(activeProcesses[p], progress))
       ELSE UNCHANGED activeProcesses
    /\ UNCHANGED <<nextProc, workers, purgeTimers, workflowStates, nextWf, wfLoop, subPolls, task>>

\* the setTimeout callback scheduled by a successful stopProcess
purgeTimer(p) ==
    /\ UNCHANGED calls
    /\ task = Idle
    /\ p \in purgeTimers
    /\ purgeTimers' = purgeTimers \ {p}
    /\ activeProcesses' = MapDelete(activeProcesses, p)
    /\ UNCHANGED <<nextProc, workers, workflowStates, nextWf, wfLoop, subPolls, task>>

(* ------------------------- WorkflowManager ----------------------------- *)
ProcessStep(t) ==
    [type |-> "process", processType |-> t, branches |-> <<>>, steps |-> <<>>]
\* skipCount 0 stands for a branch without a skipCount property
Branch(action, skipCount) ==
    [action |-> action, skipCount |-> skipCount]
DecisionStep(branches) ==
    [type |-> "decision", processType |-> "none", branches |-> branches, steps |-> <<>>]
\* a parallel step over process sub-steps
ParallelStep(subSteps) ==
    [type |-> "parallel", processType |-> "none", branches |-> <<>>, steps |-> subSteps]

WorkflowTypes ==
    {"incident-response", "evidence-collection", "malware-investigation"}
\* workflow types a caller passes to createWorkflow; "bogus" reaches the default case
WorkflowInputs ==
    WorkflowTypes \cup {"bogus"}

\* workflow.definition.steps for each workflow type
Steps(type) ==
    CASE type = "evidence-collection" ->
            <<ProcessStep("disk-imaging"), ProcessStep("malware-scan")>>
      [] type = "incident-response" ->
            <<ProcessStep("memory-dump"),
              DecisionStep(<<Branch("skip", 0), Branch("execute", 0)>>),
              ProcessStep("network-capture"),
              ProcessStep("log-analysis")>>
      [] type = "malware-investigation" ->
            <<DecisionStep(<<Branch("execute", 0), Branch("skip", 2)>>),
              ProcessStep("malware-scan"),
              ParallelStep(<<ProcessStep("log-analysis"), ProcessStep("network-capture")>>),
              DecisionStep(<<Branch("skip", 2), Branch("execute", 0)>>),
              ProcessStep("log-analysis"),
              ProcessStep("disk-imaging")>>

WfTerminal ==
    {"completed", "failed", "stopped"}

\* the workflowState object that createWorkflow stores
NewWorkflowStateAtFirst(type) ==
    [type |-> type, state |-> "created", currentStep |-> 1,
     processes |-> <<>>, error |-> "none", errorId |-> 0,
     ended |-> FALSE, starts |-> 0]
NewWorkflowState(type) ==
    [type |-> type, state |-> "created", currentStep |-> 0,
     processes |-> <<>>, error |-> "none", errorId |-> 0,
     ended |-> FALSE, starts |-> 0]

createWorkflow(type) ==
    /\ ApiCall
    /\ UNCHANGED <<activeProcesses, nextProc, workers, purgeTimers, wfLoop, subPolls, task>>
    /\ IF type \notin WorkflowTypes
       THEN \* throws 'Unknown workflow type'
            UNCHANGED <<workflowStates, nextWf>>
       ELSE /\ nextWf <= MaxWorkflows
            /\ workflowStates' = MapSet(workflowStates, nextWf, NewWorkflowState(type))
            /\ nextWf' = nextWf + 1

\* the process id that the message of a rejected step names, 0 when it names none
ErrorId(error, p) ==
    IF error \in {"notexist", "procfailed"} THEN p ELSE 0

\* the catch block of _executeWorkflowStep; p is the process of the step that
\* threw, 0 when no process was started
FailWorkflowForgets(wf, error, p) ==
    [wf EXCEPT !.state = "failed", !.error = error, !.errorId = ErrorId(error, p),
               !.ended = TRUE, !.processes = << >>]
FailWorkflowRewind(wf, error, p) ==
    [wf EXCEPT !.state = "failed", !.error = error, !.errorId = ErrorId(error, p),
               !.ended = TRUE, !.currentStep = 0]
FailWorkflow(wf, error, p) ==
    [wf EXCEPT !.state = "failed", !.error = error, !.errorId = ErrorId(error, p),
               !.ended = TRUE]

\* _executeDecisionStep: the index after the step's own update of currentStep
executeDecisionStepLastBranch(step, currentStep) ==
    LET branch == step.branches[Len(step.branches)]
    IN  IF branch.action = "skip"
        THEN currentStep + (IF branch.skipCount = 0 THEN 1 ELSE branch.skipCount)
        ELSE IF branch.action = "execute"
        THEN currentStep + 1
        ELSE currentStep
executeDecisionStep(step, currentStep) ==
    LET branch == step.branches[1]
    IN  IF branch.action = "skip"
        THEN currentStep + (IF branch.skipCount = 0 THEN 1 ELSE branch.skipCount)
        ELSE IF branch.action = "execute"
        THEN currentStep + 1
        ELSE currentStep

\* "Move to next step" of _executeWorkflowStep
MoveToNextStepByTwo(currentStep) ==
    currentStep + 2
MoveToNextStep(currentStep) ==
    currentStep + 1

\* how many of k startProcess calls made in a row pass the capacity test
StartedSubSteps(k) ==
    Min(k, Max(0, maxConcurrent - Cardinality(DOMAIN activeProcesses)))

\* _executeParallelStep up to its suspension: every sub-step is dispatched in
\* turn and runs to the await of its startProcess; a sub-step whose
\* startProcess throws rejects the step at once
executeParallelStep(w, wf, step) ==
    LET k == Len(step.steps)
        n == StartedSubSteps(k)
        new == nextProc..(nextProc + n - 1)
    IN  /\ nextProc + n - 1 <= MaxProcs
        /\ activeProcesses' =
               [x \in (DOMAIN activeProcesses) \cup new |->
                   IF x \in new
                   THEN NewProcessInfo(step.steps[x - nextProc + 1].processType)
                   ELSE activeProcesses[x]]
        /\ workers' = [x \in ProcIds |-> IF x \in new THEN "alive" ELSE workers[x]]
        /\ nextProc' = nextProc + n
        /\ task' = IF n = 0
                   THEN Idle
                   ELSE [op |-> "startProcess", id |-> nextProc, wf |-> w,
                         idx |-> nextProc + n - 1]
        /\ subPolls' = [subPolls EXCEPT ![w] = {}]
        /\ IF n < k
           THEN /\ workflowStates' = MapSet(workflowStates, w, FailWorkflow(wf, "capacity", 0))
                /\ wfLoop' = [wfLoop EXCEPT ![w] = "none"]
           ELSE /\ workflowStates' = MapSet(workflowStates, w, wf)
                /\ wfLoop' = [wfLoop EXCEPT ![w] = "join"]

\* _executeWorkflowStep(w) up to its first suspension.  wf is the record as
\* the caller left it (startWorkflow has just written 'running').
executeWorkflowStep(w, wf) ==
    LET steps == Steps(wf.type)
    IN  IF wf.state # "running"
        THEN /\ workflowStates' = MapSet(workflowStates, w, wf)
             /\ wfLoop' = [wfLoop EXCEPT ![w] = "none"]
             /\ UNCHANGED <<activeProcesses, nextProc, workers, subPolls, task>>
        ELSE IF wf.currentStep >= Len(steps)
        THEN /\ workflowStates' = MapSet(workflowStates, w,
                    [wf EXCEPT !.state = "completed", !.ended = TRUE])
             /\ wfLoop' = [wfLoop EXCEPT ![w] = "none"]
             /\ UNCHANGED <<activeProcesses, nextProc, workers, subPolls, task>>
        ELSE LET step == steps[wf.currentStep + 1]
             IN  IF step.type = "process"
                 THEN \* _executeProcessStep: startProcess, then push and poll
                      IF AtCapacity
                      THEN /\ workflowStates' = MapSet(workflowStates, w,
                                  FailWorkflow(wf, "capacity", 0))
                           /\ wfLoop' = [wfLoop EXCEPT ![w] = "none"]
                           /\ UNCHANGED <<activeProcesses, nextProc, workers, subPolls, task>>
                      ELSE /\ startProcessBegin(step.processType, w)
                           /\ workflowStates' = MapSet(workflowStates, w, wf)
                           /\ wfLoop' = [wfLoop EXCEPT ![w] = "step"]
                           /\ UNCHANGED subPolls
                 ELSE IF step.type = "parallel"
                 THEN executeParallelStep(w, wf, step)
                 ELSE \* decision step, then "Move to next step" and setImmediate
                      /\ workflowStates' = MapSet(workflowStates, w,
                             [wf EXCEPT !.currentStep =
                                  MoveToNextStep(executeDecisionStep(step, wf.currentStep))])
                      /\ wfLoop' = [wfLoop EXCEPT ![w] = "immediate"]
                      /\ UNCHANGED <<activeProcesses, nextProc, workers, subPolls, task>>

\* the state test of startWorkflow
MayStartAlways(wf) ==
    TRUE
MayStart(wf) ==
    wf.state = "created"

startWorkflow(w) ==
    /\ ApiCall
    /\ UNCHANGED <<purgeTimers, nextWf>>
    /\ IF w \in DOMAIN workflowStates /\ MayStart(workflowStates[w])
       THEN executeWorkflowStep(w, [workflowStates[w] EXCEPT
                   !.state = "running", !.starts = Min(@ + 1, 2)])
       ELSE \* returns false
            UNCHANGED <<activeProcesses, nextProc, workers, workflowStates, wfLoop, subPolls, task>>

\* the callback puts the workflow back to 'running' before it runs the step
runImmediateResumes(w) ==
    /\ UNCHANGED calls
    /\ task = Idle
    /\ wfLoop[w] = "immediate"
    /\ executeWorkflowStep(w, [workflowStates[w] EXCEPT !.state = "running"])
    /\ UNCHANGED <<purgeTimers, nextWf>>

\* the setImmediate callback queued after a completed step
runImmediate(w) ==
    /\ UNCHANGED calls
    /\ task = Idle
    /\ wfLoop[w] = "immediate"
    /\ executeWorkflowStep(w, workflowStates[w])
    /\ UNCHANGED <<purgeTimers, nextWf>>

\* what one tick of the setInterval of _executeProcessStep settles the step's
\* promise with: the first resolve or reject wins, later ones are ignored
PollOutcomeEager(p, wfState) ==
    IF p \notin DOMAIN activeProcesses THEN "notexist"
    ELSE IF activeProcesses[p].state = ERROR THEN "procfailed"
    ELSE "resolve"
PollOutcomeErrorResolves(p, wfState) ==
    IF p \notin DOMAIN activeProcesses THEN "notexist"
    ELSE IF activeProcesses[p].state \in Terminal THEN "resolve"
    ELSE IF wfState # "running" THEN "interrupted"
    ELSE "pending"
PollOutcome(p, wfState) ==
    IF p \notin DOMAIN activeProcesses THEN "notexist"
    ELSE IF activeProcesses[p].state = COMPLETED THEN "resolve"
    ELSE IF activeProcesses[p].state = ERROR THEN "procfailed"
    ELSE IF wfState # "running" THEN "interrupted"
    ELSE "pending"

\* one tick of the poll interval and, when it settles the promise, the rest of
\* _executeWorkflowStep: "Move to next step" or the catch block
pollTickStopsOnFail(w) ==
    /\ UNCHANGED calls
    /\ task = Idle
    /\ wfLoop[w] = "poll"
    /\ LET wf == workflowStates[w]
           p == wf.processes[Len(wf.processes)]
           outcome == PollOutcome(p, wf.state)
           mine == {wf.processes[i] : i \in 1..Len(wf.processes)}
       IN  CASE outcome = "pending" ->
                    UNCHANGED <<workflowStates, wfLoop, activeProcesses, workers>>
             [] outcome = "resolve" ->
                    /\ workflowStates' = MapSet(workflowStates, w,
                           [wf EXCEPT !.currentStep = MoveToNextStep(@)])
                    /\ wfLoop' = [wfLoop EXCEPT ![w] = "immediate"]
                    /\ UNCHANGED <<activeProcesses, workers>>
             [] OTHER ->
                    /\ workflowStates' = MapSet(workflowStates, w, FailWorkflow(wf, outcome, p))
                    /\ wfLoop' = [wfLoop EXCEPT ![w] = "none"]
                    /\ activeProcesses' =
                           [x \in DOMAIN activeProcesses |->
                               IF x \in mine
                               THEN WriteState(activeProcesses[x], STOPPING)
                               ELSE activeProcesses[x]]
                    /\ workers' = [x \in ProcIds |->
                                      IF x \in mine /\ x \in DOMAIN activeProcesses
                                      THEN Kill(workers[x]) ELSE workers[x]]
    /\ UNCHANGED <<nextProc, purgeTimers, nextWf, subPolls, task>>
pollTick(w) ==
    /\ UNCHANGED calls
    /\ task = Idle
    /\ wfLoop[w] = "poll"
    /\ LET wf == workflowStates[w]
           p == wf.processes[Len(wf.processes)]
           outcome == PollOutcome(p, wf.state)
       IN  CASE outcome = "pending" ->
                    UNCHANGED <<workflowStates, wfLoop>>
             [] outcome = "resolve" ->
                    /\ workflowStates' = MapSet(workflowStates, w,
                           [wf EXCEPT !.currentStep = MoveToNextStep(@)])
                    /\ wfLoop' = [wfLoop EXCEPT ![w] = "immediate"]
             [] OTHER ->
                    /\ workflowStates' = MapSet(workflowStates, w, FailWorkflow(wf, outcome, p))
                    /\ wfLoop' = [wfLoop EXCEPT ![w] = "none"]
    /\ UNCHANGED <<activeProcesses, nextProc, workers, purgeTimers, nextWf, subPolls, task>>

\* one tick of the poll interval of a sub-step of a parallel step: the step
\* is done when the promise of every sub-step has resolved and is rejected by
\* the first sub-step whose promise rejects
subPollTick(w, p) ==
    /\ UNCHANGED calls
    /\ task = Idle
    /\ wfLoop[w] = "join"
    /\ p \in subPolls[w]
    /\ LET wf == workflowStates[w]
           outcome == PollOutcome(p, wf.state)
       IN  CASE outcome = "pending" ->
                    UNCHANGED <<workflowStates, wfLoop, subPolls>>
             [] outcome = "resolve" ->
                    IF subPolls[w] = {p}
                    THEN /\ workflowStates' = MapSet(workflowStates, w,
                                [wf EXCEPT !.currentStep = MoveToNextStep(@)])
                         /\ wfLoop' = [wfLoop EXCEPT ![w] = "immediate"]
                         /\ subPolls' = [subPolls EXCEPT ![w] = {}]
                    ELSE /\ subPolls' = [subPolls EXCEPT ![w] = @ \ {p}]
                         /\ UNCHANGED <<workflowStates, wfLoop>>
             [] OTHER ->
                    /\ workflowStates' = MapSet(workflowStates, w, FailWorkflow(wf, outcome, p))
                    /\ wfLoop' = [wfLoop EXCEPT ![w] = "none"]
                    /\ subPolls' = [subPolls EXCEPT ![w] = {}]
    /\ UNCHANGED <<activeProcesses, nextProc, workers, purgeTimers, nextWf, task>>

\* the state test of stopWorkflow
MayStop(wf) ==
    wf.state \notin {"completed", "failed"}

\* stopWorkflow up to its loop over workflow.processes
stopWorkflow(w) ==
    /\ ApiCall
    /\ UNCHANGED <<activeProcesses, nextProc, workers, purgeTimers, nextWf, wfLoop, subPolls>>
    /\ IF w \in DOMAIN workflowStates /\ MayStop(workflowStates[w])
       THEN /\ workflowStates' = [workflowStates EXCEPT ![w].state = "stopping"]
            /\ task' = [op |-> "stopWorkflow", id |-> 0, wf |-> w, idx |-> 1]
       ELSE \* returns false
            UNCHANGED <<workflowStates, task>>

\* where stopWorkflow's loop goes after a stopProcess that returned false
AfterFailedStopAbort(wf, idx) ==
    Len(wf.processes) + 1
AfterFailedStop(wf, idx) ==
    idx + 1

\* one iteration of the loop of stopWorkflow, or its final write
stopWorkflowNext ==
    /\ UNCHANGED calls
    /\ task.op = "stopWorkflow"
    /\ LET w == task.wf
           wf == workflowStates[w]
       IN  IF task.idx <= Len(wf.processes)
           THEN /\ LET p == wf.processes[task.idx]
                   IN  IF p \notin DOMAIN activeProcesses
                       THEN /\ task' = [task EXCEPT !.idx = AfterFailedStop(wf, task.idx)]
                            /\ UNCHANGED <<activeProcesses, workers>>
                       ELSE stopProcessBegin(p, w, task.idx)
                /\ UNCHANGED workflowStates
           ELSE /\ workflowStates' = [workflowStates EXCEPT
                       ![w].state = "stopped", ![w].ended = TRUE]
                /\ task' = Idle
                /\ UNCHANGED <<activeProcesses, workers>>
    /\ UNCHANGED <<nextProc, purgeTimers, nextWf, wfLoop, subPolls>>

\* The log buffers are followed in LogSpec and RingSpec; the other
\* specifications do not read them and leave them out of their steps.
NoLog ==
    UNCHANGED <<processLogs, logged>>
\* The decision tree and the router are followed in RuleSpec and HttpSpec.
Away ==
    UNCHANGED <<rules, http, engine, sim>>
\* a step of the process and workflow managers that logs nothing
Quiet ==
    NoLog /\ Away

(* --------------------------- process logs ------------------------------ *)
\* A log entry is the message with the position it has among all the entries
\* appended for its process (the timestamp of the entry orders them the same
\* way); n is the number a progress message carries, 0 elsewhere.
Msg(text) ==
    [text |-> text, n |-> 0]
ProgressLine(progress) ==
    [text |-> "Progress: n%", n |-> progress]
\* the line "progress: <n>" a worker writes to its stdout
StdoutLine(progress) ==
    [text |-> "progress: n", n |-> progress]

\* the size cap of a log buffer
LogCap ==
    1000

\* _logProcess: push, then shift when the buffer is over the cap
logProcessDropNewest(logs, p, entry) ==
    LET buf == IF p \in DOMAIN logs THEN logs[p] ELSE << >>
        pushed == Append(buf, entry)
    IN  MapSet(logs, p, IF Len(pushed) > LogCap THEN SubSeq(pushed, 1, LogCap) ELSE pushed)
logProcess(logs, p, entry) ==
    LET buf == IF p \in DOMAIN logs THEN logs[p] ELSE << >>
        pushed == Append(buf, entry)
    IN  MapSet(logs, p, IF Len(pushed) > LogCap THEN Tail(pushed) ELSE pushed)

\* consecutive _logProcess calls for process p; n entries were appended before
RECURSIVE LogAll(_, _, _, _)
LogAll(logs, n, p, msgs) ==
    IF msgs = << >>
    THEN logs
    ELSE LogAll(logProcess(logs, p, [seq |-> n + 1, text |-> Head(msgs).text, n |-> Head(msgs).n]),
                n + 1, p, Tail(msgs))

Writes(p, msgs) ==
    /\ processLogs' = LogAll(processLogs, logged[p], p, msgs)
    /\ logged' = [logged EXCEPT ![p] = @ + Len(msgs)]

\* the message of the _start<Type>Process method
InitMessage(type) ==
    CASE type = "disk-imaging" -> Msg("Initializing disk imaging process")
      [] type = "memory-dump" -> Msg("Initializing memory dump process")
      [] type = "network-capture" -> Msg("Initializing network capture process")
      [] type = "log-analysis" -> Msg("Initializing log analysis process")
      [] type = "malware-scan" -> Msg("Initializing malware scan process")

\* the messages of _cleanupProcess
CleanupMessages(type) ==
    <<Msg("Running process cleanup")>>
    \o (CASE type = "disk-imaging" -> <<Msg("Verifying disk image integrity"),
                                        Msg("Cleaning up temporary files")>>
          [] type = "network-capture" -> <<Msg("Finalizing network capture file"),
                                           Msg("Generating capture summary")>>
          [] type = "memory-dump" -> <<Msg("Verifying memory dump integrity")>>
          [] type = "log-analysis" -> <<Msg("Finalizing analysis reports")>>
          [] type = "malware-scan" -> <<Msg("Generating malware scan report")>>
          [] OTHER -> << >>)
    \o <<Msg("Cleanup completed")>>

\* the message of the kill in stopProcess: process.kill throws for a worker
\* that has exited
KillMessages(p) ==
    IF ~activeProcesses[p].pid
    THEN << >>
    ELSE IF workers[p] = "done"
    THEN <<Msg("Error terminating process: kill ESRCH")>>
    ELSE <<Msg("Process <pid> terminated")>>

\* startProcess with its log lines: the buffer is created with the record
startProcessLogged(type) ==
    /\ startProcess(type)
    /\ IF AtCapacity
       THEN NoLog
       ELSE /\ processLogs' = LogAll(MapSet(processLogs, nextProc, << >>), 0, nextProc,
                                     <<Msg("Process initialization started")>>
                                     \o (IF type \in ProcessTypes THEN <<InitMessage(type)>> ELSE << >>))
            /\ logged' = [logged EXCEPT ![nextProc] = IF type \in ProcessTypes THEN 2 ELSE 1]

startProcessFinishLogged ==
    /\ startProcessFinish
    /\ Writes(task.id, <<Msg("Process started with PID <pid>")>>)

stopProcessLoggedInCatch(p) ==
    /\ stopProcess(p)
    /\ IF p \notin DOMAIN activeProcesses
       THEN Writes(p, <<Msg("Process error: Process <id> not found")>>)
       ELSE Writes(p, <<Msg("Process stopping initiated")>> \o KillMessages(p)
                      \o CleanupMessages(activeProcesses[p].type))
\* stopProcess with its log lines: the throw for an unknown id comes before
\* any _logProcess call, and the catch logs for a record of the registry only
stopProcessLogged(p) ==
    /\ stopProcess(p)
    /\ IF p \notin DOMAIN activeProcesses
       THEN NoLog
       ELSE Writes(p, <<Msg("Process stopping initiated")>> \o KillMessages(p)
                      \o CleanupMessages(activeProcesses[p].type))

stopProcessFinishLogged ==
    /\ stopProcessFinish
    /\ Writes(task.id, <<Msg("Process cleanup completed")>>)

pauseProcessLogged(p) ==
    /\ pauseProcess(p)
    /\ IF CanPause(p) THEN Writes(p, <<Msg("Process paused")>>) ELSE NoLog

resumeProcessLogged(p) ==
    /\ resumeProcess(p)
    /\ IF CanResume(p) THEN Writes(p, <<Msg("Process resumed")>>) ELSE NoLog

monitorExitLogged(p, kind) ==
    /\ monitorExit(p, kind)
    /\ IF p \in DOMAIN activeProcesses
       THEN Writes(p, <<IF kind = "ok"
                        THEN Msg("Process completed successfully")
                        ELSE Msg("Process failed: Exit code <code>, Signal <signal>")>>)
       ELSE NoLog

\* progress % 25 of JavaScript: the result has the sign of the dividend
JsRem(a, b) ==
    IF a >= 0 THEN a % b ELSE 0 - ((0 - a) % b)

\* the milestone test of updateProcessProgress
IsMilestone(progress) ==
    JsRem(progress, 25) = 0

\* the log lines of updateProcessProgress(p, progress)
ProgressMessages(p, progress) ==
    IF p \in DOMAIN activeProcesses /\ IsMilestone(progress)
    THEN <<ProgressLine(progress)>>
    ELSE << >>

\* the stdout callback logs the raw line first, for any process id, then
\* updateProcessProgress adds its milestone line
monitorStdoutLogged(p, progress) ==
    /\ monitorStdout(p, progress)
    /\ Writes(p, <<StdoutLine(progress)>> \o ProgressMessages(p, progress))

\* 'data' callback of the worker's stderr
monitorStderr(p) ==
    /\ task = Idle
    /\ workers[p] # "none"
    /\ Writes(p, <<Msg("ERROR: <line>")>>)
    /\ UNCHANGED <<activeProcesses, nextProc, workers, purgeTimers, workflowStates, nextWf,
                   wfLoop, subPolls, task, calls>>

\* updateProcessProgress called by an API caller; an unknown id returns false
updateProgress(p, progress) ==
    /\ ApiCall
    /\ IF p \in DOMAIN activeProcesses
       THEN activeProcesses' = MapSet(activeProcesses, p,
                                     updateProcessProgress(activeProcesses[p], progress))
       ELSE UNCHANGED activeProcesses
    /\ Writes(p, ProgressMessages(p, progress))
    /\ UNCHANGED <<nextProc, workers, purgeTimers, workflowStates, nextWf, wfLoop, subPolls, task>>

\* the purge deletes the record and keeps its log buffer
purgeTimerLogged(p) ==
    /\ purgeTimer(p)
    /\ NoLog

(* ---------------------------- decision tree ---------------------------- *)
WORK_HOUR_START ==
    8
WORK_HOUR_END ==
    18

\* A timestamp is an ISO 8601 date-time: the hour and minute it shows and the
\* offset from UTC it is written in, in hours ("Z" is offset 0).
Timestamp(hour, minute, offset) ==
    [hour |-> hour, minute |-> minute, offset |-> offset]

\* new Date(isoTimestamp).getUTCHours()
getHour(isoTimestamp) ==
    (isoTimestamp.hour - isoTimestamp.offset) % 24

\* timestamps of the artifact records: an early hour, both ends of the working
\* day, and one written with an offset
TimestampInputs ==
    {Timestamp(3, 0, 0), Timestamp(8, 0, 0), Timestamp(18, 0, 0), Timestamp(10, 30, 5)}
ArtifactInputs ==
    [artifact_type : {"serpent_xts_key", "file_hash"}, timestamp : TimestampInputs,
     snapshot_id : {1, 2}]
AnomalyInputs ==
    [user_id : {1, 2}, anomaly_score : {0 - 1, 1}]

\* the anomaly file and the artifact file are written record by record before
\* the decision tree runs
writeAnomaly(rec) ==
    /\ ~rules.evaluated
    /\ Len(rules.anomalies) < MaxAnomalies
    /\ rules' = [rules EXCEPT !.anomalies = Append(@, rec)]
    /\ UNCHANGED <<activeProcesses, nextProc, workers, purgeTimers, workflowStates, nextWf,
                   wfLoop, subPolls, task, calls, processLogs, logged, http,
                   engine, sim>>
writeArtifact(rec) ==
    /\ ~rules.evaluated
    /\ Len(rules.artifacts) < MaxArtifacts
    /\ rules' = [rules EXCEPT !.artifacts = Append(@, rec)]
    /\ UNCHANGED <<activeProcesses, nextProc, workers, purgeTimers, workflowStates, nextWf,
                   wfLoop, subPolls, task, calls, processLogs, logged, http,
                   engine, sim>>

\* the test of rule #1
IsAnomalous(rec) ==
    rec.anomaly_score = 0 - 1

\* Rule #1: the console.warn lines of ruleAnomalousUser, in order
RECURSIVE ruleAnomalousUserOncePerUser(_)
ruleAnomalousUserOncePerUser(anomalies) ==
    IF anomalies = << >>
    THEN << >>
    ELSE LET rest == ruleAnomalousUserOncePerUser(SubSeq(anomalies, 1, Len(anomalies) - 1))
             rec == anomalies[Len(anomalies)]
         IN  IF IsAnomalous(rec) /\ \A i \in 1..Len(rest) : rest[i].id # rec.user_id
             THEN Append(rest, [rule |-> "anomalous-user", h |-> 0, id |-> rec.user_id])
             ELSE rest
RECURSIVE ruleAnomalousUser(_)
ruleAnomalousUser(anomalies) ==
    IF anomalies = << >>
    THEN << >>
    ELSE (IF IsAnomalous(Head(anomalies))
          THEN <<[rule |-> "anomalous-user", h |-> 0, id |-> Head(anomalies).user_id]>>
          ELSE << >>)
         \o ruleAnomalousUser(Tail(anomalies))

\* the hour test of rule #2
IsOffHourThroughEnd(h) ==
    h < WORK_HOUR_START \/ h > WORK_HOUR_END
IsOffHour(h) ==
    h < WORK_HOUR_START \/ h >= WORK_HOUR_END

\* Rule #2: the console.warn lines of ruleOffHourKeyExtraction, in order
RECURSIVE ruleOffHourKeyExtraction(_)
ruleOffHourKeyExtraction(artifacts) ==
    IF artifacts = << >>
    THEN << >>
    ELSE LET a == Head(artifacts)
             h == getHour(a.timestamp)
         IN  (IF a.artifact_type = "serpent_xts_key" /\ IsOffHour(h)
              THEN <<[rule |-> "off-hours", h |-> h, id |-> a.snapshot_id]>>
              ELSE << >>)
             \o ruleOffHourKeyExtraction(Tail(artifacts))

\* evaluate: load both files and run the rules
evaluate ==
    /\ ~rules.evaluated
    /\ rules' = [rules EXCEPT !.evaluated = TRUE,
                              !.alerts = ruleAnomalousUser(rules.anomalies)
                                         \o ruleOffHourKeyExtraction(rules.artifacts)]
    /\ UNCHANGED <<activeProcesses, nextProc, workers, purgeTimers, workflowStates, nextWf,
                   wfLoop, subPolls, task, calls, processLogs, logged, http,
                   engine, sim>>

(* -------------------------------- router ------------------------------- *)
\* req.headers['x-api-key']: no such header, an empty value, a key that is not
\* the configured one, and config.apiKeys.mainApiKey
NoHeader ==
    "undefined"
MainApiKey ==
    "mainApiKey"
ApiKeyInputs ==
    {NoHeader, "", "wrong", MainApiKey}
PathInputs ==
    {"/health", "/user"}

\* A middleware yields the status it answers with, or 0 when it calls next().
authenticateAPI(req) ==
    IF req.apiKey = NoHeader \/ req.apiKey = "" \/ req.apiKey # MainApiKey THEN 401 ELSE 0

\* the simulated limiter answers 429 for one request in a hundred
rateLimit(limited) ==
    IF limited THEN 429 ELSE 0

\* the handlers of GET /health and GET /user
Route(req) ==
    CASE req.path = "/health" -> 200
      [] req.path = "/user" -> 200
      [] OTHER -> 404

\* the router: logRequest, authenticateAPI and rateLimit are registered with
\* router.use ahead of every route and run in that order for every path
Dispatch(req, limited) ==
    IF authenticateAPI(req) # 0
    THEN authenticateAPI(req)
    ELSE IF rateLimit(limited) # 0
    THEN rateLimit(limited)
    ELSE Route(req)

\* one GET request, up to the 'finish' event that logRequest listens for
request(path, apiKey, limited) ==
    /\ Len(http) < MaxRequests
    /\ LET req == [path |-> path, apiKey |-> apiKey]
           status == Dispatch(req, limited)
       IN  http' = Append(http, [path |-> path, apiKey |-> apiKey, limited |-> limited,
                                 status |-> status,
                                 logLevel |-> IF status >= 400 THEN "warn" ELSE "info"])
    /\ UNCHANGED <<activeProcesses, nextProc, workers, purgeTimers, workflowStates, nextWf,
                   wfLoop, subPolls, task, calls, processLogs, logged, rules,
                   engine, sim>>

(* --------------------------- pipeline engine --------------------------- *)
\* One entry of engine per emitted 'start'. pc is the callback the run waits
\* for, started the step functions called so far, emitted the payloads of the
\* 'stepDone' events, console the lines of the engine itself.
StepOrder ==
    <<"collectMetadata", "analyzeLogs", "evaluate", "correlateEvidence">>

\* collectMetadata: prints, then exec of metadata_reconstruction.py
collectMetadata(run) ==
    [run EXCEPT !.started = Append(@, "collectMetadata"), !.pc = "collectMetadata"]
\* analyzeLogs: prints, then exec of user_behavior_model.py
analyzeLogs(run) ==
    [run EXCEPT !.started = Append(@, "analyzeLogs"), !.pc = "analyzeLogs"]
\* correlateEvidence: prints, then setTimeout(..., 1500)
correlateEvidence(run) ==
    [run EXCEPT !.started = Append(@, "correlateEvidence"), !.pc = "correlateEvidence"]

Halt(run, line) ==
    [run EXCEPT !.console = Append(@, line), !.pc = "done"]

nextStepContinuesAfterThrow(run, prev, throws) ==
    LET r1 == [run EXCEPT !.console = Append(@, "Completed: " \o prev)]
    IN  CASE prev = "metadata_collected" -> analyzeLogs(r1)
          [] prev = "logs_analyzed" ->
                LET r2 == [r1 EXCEPT !.started = Append(@, "evaluate")]
                IN  IF throws
                    THEN correlateEvidence([r2 EXCEPT !.console =
                                               Append(@, "Evidence correlation failed")])
                    ELSE correlateEvidence(r2)
          [] prev = "evidence_correlated" -> Halt(r1, "Workflow complete")
          [] OTHER -> Halt(r1, "Unknown step")

\* nextStep, up to its first await. throws: dtree.evaluate raised (a file is
\* missing or is not JSON); the catch of the same case prints and the
\* function ends.
nextStep(run, prev, throws) ==
    LET r1 == [run EXCEPT !.console = Append(@, "Completed: " \o prev)]
    IN  CASE prev = "metadata_collected" -> analyzeLogs(r1)
          [] prev = "logs_analyzed" ->
                LET r2 == [r1 EXCEPT !.started = Append(@, "evaluate")]
                IN  IF throws
                    THEN Halt(r2, "Evidence correlation failed")
                    ELSE correlateEvidence(r2)
          [] prev = "evidence_correlated" -> Halt(r1, "Workflow complete")
          [] OTHER -> Halt(r1, "Unknown step")

\* this.emit('stepDone', result): the listener runs inside the call
emitStepDone(run, prev, throws) ==
    nextStep([run EXCEPT !.emitted = Append(@, prev)], prev, throws)

\* engine.emit('start'): runPipeline up to its await
runPipeline ==
    /\ Len(engine) < MaxRuns
    /\ engine' = Append(engine,
                        collectMetadata([pc |-> "none", started |-> << >>, emitted |-> << >>,
                                         console |-> <<"Starting forensic workflow">>]))
    /\ UNCHANGED <<activeProcesses, nextProc, workers, purgeTimers, workflowStates, nextWf,
                   wfLoop, subPolls, task, calls, processLogs, logged, rules, http, sim>>

\* The callback of exec in collectMetadata or analyzeLogs, and the
\* continuation of the await it settles. err: the script could not be run or
\* exited with a non-zero code.
execCallback(r, err, throws) ==
    /\ r \in DOMAIN engine
    /\ engine[r].pc \in {"collectMetadata", "analyzeLogs"}
    /\ LET run == engine[r]
           meta == run.pc = "collectMetadata"
       IN  engine' = [engine EXCEPT ![r] =
               IF err
               THEN Halt(run, IF meta THEN "Metadata step failed" ELSE "Log analysis failed")
               ELSE emitStepDone(run, IF meta THEN "metadata_collected" ELSE "logs_analyzed",
                                 throws)]
    /\ UNCHANGED <<activeProcesses, nextProc, workers, purgeTimers, workflowStates, nextWf,
                   wfLoop, subPolls, task, calls, processLogs, logged, rules, http, sim>>

\* The timer of correlateEvidence fires: the promise resolves, it never rejects.
correlationTimer(r) ==
    /\ r \in DOMAIN engine
    /\ engine[r].pc = "correlateEvidence"
    /\ engine' = [engine EXCEPT ![r] = emitStepDone(engine[r], "evidence_correlated", FALSE)]
    /\ UNCHANGED <<activeProcesses, nextProc, workers, purgeTimers, workflowStates, nextWf,
                   wfLoop, subPolls, task, calls, processLogs, logged, rules, http, sim>>

(* -------------------------- simulation toggle -------------------------- *)
\* sim.simulationRunning is the flag, sim.timers the number of pending
\* setTimeout(simulateData, 5000), sim.loaded whether simulate_data is in the
\* module cache, sim.last what the latest simulateData call did and
\* sim.requests the number of POST requests served.

\* simulateData().  require runs the module the first time only ("generated"),
\* later calls get the cached exports; loads: the module can be loaded, when
\* it cannot the require throws and the setTimeout line is not reached.
simulateData(s, loads) ==
    IF ~s.simulationRunning
    THEN [s EXCEPT !.last = "off"]
    ELSE IF s.loaded
    THEN [s EXCEPT !.last = "cached", !.timers = @ + 1]
    ELSE IF loads
    THEN [s EXCEPT !.last = "generated", !.loaded = TRUE, !.timers = @ + 1]
    ELSE [s EXCEPT !.last = "threw"]

\* app.post('/start')
postStart(loads) ==
    /\ sim.requests < MaxToggles
    /\ sim' = simulateData([sim EXCEPT !.simulationRunning = TRUE, !.requests = @ + 1], loads)
    /\ UNCHANGED <<activeProcesses, nextProc, workers, purgeTimers, workflowStates, nextWf,
                   wfLoop, subPolls, task, calls, processLogs, logged, rules, http, engine>>

\* app.post('/stop')
postStop ==
    /\ sim.requests < MaxToggles
    /\ sim' = [sim EXCEPT !.simulationRunning = FALSE, !.requests = @ + 1]
    /\ UNCHANGED <<activeProcesses, nextProc, workers, purgeTimers, workflowStates, nextWf,
                   wfLoop, subPolls, task, calls, processLogs, logged, rules, http, engine>>

\* one pending setTimeout(simulateData, 5000) fires; a timer exists only once
\* the module is in the cache
simulateDataTimer ==
    /\ sim.timers > 0
    /\ sim' = simulateData([sim EXCEPT !.timers = @ - 1], TRUE)
    /\ UNCHANGED <<activeProcesses, nextProc, workers, purgeTimers, workflowStates, nextWf,
                   wfLoop, subPolls, task, calls, processLogs, logged, rules, http, engine>>

(* ---------------------------- specification ---------------------------- *)

Init ==
    /\ activeProcesses = << >>
    /\ nextProc = 1
    /\ workers = [p \in ProcIds |-> "none"]
    /\ purgeTimers = {}
    /\ workflowStates = << >>
    /\ nextWf = 1
    /\ wfLoop = [w \in WfIds |-> "none"]
    /\ subPolls = [w \in WfIds |-> {}]
    /\ task = Idle
    /\ calls = 0
    /\ processLogs = << >>
    /\ logged = [p \in ProcIds |-> 0]
    /\ rules = [evaluated |-> FALSE, anomalies |-> << >>, artifacts |-> << >>, alerts |-> << >>]
    /\ http = << >>
    /\ engine = << >>
    /\ sim = [simulationRunning |-> FALSE, timers |-> 0, loaded |-> FALSE, last |-> "none",
              requests |-> 0]

Next ==
    \/ Quiet /\ \E t \in StartInputs : startProcess(t)
    \/ Quiet /\ startProcessFinish
    \/ Quiet /\ \E p \in ProcIds : stopProcess(p)
    \/ Quiet /\ stopProcessFinish
    \/ Quiet /\ \E p \in ProcIds : pauseProcess(p)
    \/ Quiet /\ \E p \in ProcIds : resumeProcess(p)
    \/ Quiet /\ \E p \in ProcIds, kind \in ExitKinds : monitorExit(p, kind)
    \/ Quiet /\ \E p \in ProcIds : purgeTimer(p)
    \/ Quiet /\ \E t \in WorkflowInputs : createWorkflow(t)
    \/ Quiet /\ \E w \in WfIds : startWorkflow(w)
    \/ Quiet /\ \E w \in WfIds : runImmediate(w)
    \/ Quiet /\ \E w \in WfIds : pollTick(w)
    \/ Quiet /\ \E w \in WfIds, p \in ProcIds : subPollTick(w, p)
    \/ Quiet /\ \E w \in WfIds : stopWorkflow(w)
    \/ Quiet /\ stopWorkflowNext

Spec ==
    Init /\ [][Next]_vars

\* Workflows driven by their workers alone: no caller stops a process or a
\* workflow.  Timers and continuations that are due do run.
RunNext ==
    \/ Quiet /\ \E t \in StartInputs : startProcess(t)
    \/ Quiet /\ startProcessFinish
    \/ Quiet /\ \E p \in ProcIds : pauseProcess(p)
    \/ Quiet /\ \E p \in ProcIds : resumeProcess(p)
    \/ Quiet /\ \E p \in ProcIds, kind \in ExitKinds : monitorExit(p, kind)
    \/ Quiet /\ \E t \in WorkflowInputs : createWorkflow(t)
    \/ Quiet /\ \E w \in WfIds : startWorkflow(w)
    \/ Quiet /\ \E w \in WfIds : runImmediate(w)
    \/ Quiet /\ \E w \in WfIds : pollTick(w)
    \/ Quiet /\ \E w \in WfIds, p \in ProcIds : subPollTick(w, p)

RunSpec ==
    /\ Init
    /\ [][RunNext]_vars
    /\ WF_vars(Quiet /\ startProcessFinish)
    /\ \A w \in WfIds : WF_vars(Quiet /\ runImmediate(w)) /\ WF_vars(Quiet /\ pollTick(w))
    /\ \A w \in WfIds, p \in ProcIds : WF_vars(Quiet /\ subPollTick(w, p))

\* The process supervisor on its own, driven by API callers and by the
\* workers' output and exit events.
ProcNext ==
    \/ Quiet /\ \E t \in StartInputs : startProcess(t)
    \/ Quiet /\ startProcessFinish
    \/ Quiet /\ \E p \in ProcIds : stopProcess(p)
    \/ Quiet /\ stopProcessFinish
    \/ Quiet /\ \E p \in ProcIds : pauseProcess(p)
    \/ Quiet /\ \E p \in ProcIds : resumeProcess(p)
    \/ Quiet /\ \E p \in ProcIds, kind \in ExitKinds : monitorExit(p, kind)
    \/ Quiet /\ \E p \in ProcIds, progress \in ProgressInputs : monitorStdout(p, progress)

ProcSpec ==
    Init /\ [][ProcNext]_vars

\* The process supervisor with its retention timers; continuations and
\* timers that are due do run, callers and workers act when they choose.
RetentionNext ==
    \/ ProcNext
    \/ Quiet /\ \E p \in ProcIds : purgeTimer(p)

RetentionSpec ==
    /\ Init
    /\ [][RetentionNext]_vars
    /\ WF_vars(Quiet /\ startProcessFinish)
    /\ WF_vars(Quiet /\ stopProcessFinish)
    /\ \A p \in ProcIds : WF_vars(Quiet /\ purgeTimer(p))


\* The ProcessManager with its log buffers: every operation of ProcSpec with
\* the lines it logs, the stderr callback and direct progress updates.
LogNext ==
    \/ Away /\ \E t \in StartInputs :
           calls < LogCalls /\ nextProc <= LogProcs /\ startProcessLogged(t)
    \/ Away /\ startProcessFinishLogged
    \/ Away /\ \E p \in ProcIds : calls < LogCalls /\ stopProcessLogged(p)
    \/ Away /\ stopProcessFinishLogged
    \/ Away /\ \E p \in ProcIds : calls < LogCalls /\ pauseProcessLogged(p)
    \/ Away /\ \E p \in ProcIds : calls < LogCalls /\ resumeProcessLogged(p)
    \/ Away /\ \E p \in ProcIds, kind \in ExitKinds : monitorExitLogged(p, kind)
    \/ Away /\ \E p \in ProcIds, progress \in ProgressInputs :
           logged[p] < MaxLogged /\ monitorStdoutLogged(p, progress)
    \/ Away /\ \E p \in ProcIds : logged[p] < MaxLogged /\ monitorStderr(p)
    \/ Away /\ \E p \in ProcIds, progress \in PctInputs : calls < LogCalls /\ updateProgress(p, progress)
    \/ Away /\ \E p \in ProcIds : purgeTimerLogged(p)

LogSpec ==
    Init /\ [][LogNext]_vars

\* One log-analysis worker that writes until its log has MaxAppends entries,
\* a progress line among stderr lines, and is stopped afterwards.
RingNext ==
    \/ Away /\ nextProc = 1 /\ startProcessLogged("log-analysis")
    \/ Away /\ startProcessFinishLogged
    \/ Away /\ logged[1] < MaxAppends /\ logged[1] % ReportEvery = 0 /\ monitorStdoutLogged(1, 50)
    \/ Away /\ logged[1] < MaxAppends /\ logged[1] % ReportEvery # 0 /\ monitorStderr(1)
    \/ Away /\ logged[1] >= MaxAppends /\ stopProcessLogged(1)
    \/ Away /\ stopProcessFinishLogged

RingSpec ==
    Init /\ [][RingNext]_vars

\* One run of the decision tree over the files it is given.
RuleNext ==
    \/ \E rec \in AnomalyInputs : writeAnomaly(rec)
    \/ \E rec \in ArtifactInputs : writeArtifact(rec)
    \/ evaluate

RuleSpec ==
    Init /\ [][RuleNext]_vars

\* The router answering GET requests.
HttpNext ==
    \E path \in PathInputs, apiKey \in ApiKeyInputs, limited \in BOOLEAN :
        request(path, apiKey, limited)

HttpSpec ==
    Init /\ [][HttpNext]_vars

\* The event-driven pipeline engine, started MaxRuns times.
PipeNext ==
    \/ runPipeline
    \/ \E r \in 1..MaxRuns, err \in BOOLEAN, throws \in BOOLEAN : execCallback(r, err, throws)
    \/ \E r \in 1..MaxRuns : correlationTimer(r)

PipeSpec ==
    Init /\ [][PipeNext]_vars

\* The simulation toggle: POST /start, POST /stop and the reschedule timers.
SimNext ==
    \/ \E loads \in BOOLEAN : postStart(loads)
    \/ postStop
    \/ simulateDataTimer

SimSpec ==
    Init /\ [][SimNext]_vars

(* ------------------------------- claims -------------------------------- *)
InRegistry(p) ==
    p \in DOMAIN activeProcesses
StaysInRegistry(p) ==
    p \in DOMAIN activeProcesses /\ p \in DOMAIN activeProcesses'

\* C1: in every reachable state at most maxConcurrent process records are in a
\* state other than COMPLETED or ERROR, and a step taken while maxConcurrent
\* records are non-terminal (a startProcess in particular) adds no record.
C1_CapacityBound ==
    /\ [](NonTerminalCount <= maxConcurrent)
    /\ [][NonTerminalCount >= maxConcurrent =>
            DOMAIN activeProcesses' \subseteq DOMAIN activeProcesses]_vars

\* the registry is full of running records and more calls were made than
\* records exist: a further startProcess found it full
C1_Witness ==
    /\ NonTerminalCount = maxConcurrent
    /\ Cardinality(DOMAIN activeProcesses) = maxConcurrent
    /\ nextProc = maxConcurrent + 1
    /\ workflowStates = << >>
    /\ \A p \in DOMAIN activeProcesses : activeProcesses[p].state = RUNNING
    /\ calls > maxConcurrent

\* C2: the terminal state of a process record is written exactly once: once a
\* record is COMPLETED or ERROR, neither stopProcess nor the worker's exit
\* callback writes its state again.
C2_TerminalWrittenOnce ==
    [][\A p \in ProcIds :
          (StaysInRegistry(p) /\ activeProcesses[p].state \in Terminal)
              => activeProcesses'[p].state = activeProcesses[p].state]_vars

\* a step of a caller operation on the process registry
CallerOperation ==
    \/ \E p \in ProcIds : stopProcess(p) \/ pauseProcess(p) \/ resumeProcess(p)
    \/ stopProcessFinish

\* C3: COMPLETED and ERROR are absorbing under the caller operations: no step
\* of stopProcess, pauseProcess or resumeProcess moves a record that is
\* COMPLETED or ERROR to another state while it is in the registry.
C3_TerminalAbsorbing ==
    [][CallerOperation =>
          \A p \in ProcIds :
              (StaysInRegistry(p) /\ activeProcesses[p].state \in Terminal)
                  => activeProcesses'[p].state = activeProcesses[p].state]_vars

\* C4: when stopProcess returns for an id of the registry the record is
\* COMPLETED or ERROR; STOPPING is only ever seen while that stopProcess is
\* suspended at its await.
C4_StopLeavesTerminal ==
    /\ [][stopProcessFinish => activeProcesses'[task.id].state \in Terminal]_vars
    /\ [](\A p \in DOMAIN activeProcesses :
              activeProcesses[p].state = STOPPING => task.op = "stopProcess" /\ task.id = p)

\* stopProcess has returned for a record that was PAUSED: the record is
\* COMPLETED although the SIGSTOPped worker has not terminated
C4_Witness ==
    /\ task = Idle
    /\ \E p \in DOMAIN activeProcesses :
          /\ activeProcesses[p].state = COMPLETED
          /\ p \in purgeTimers
          /\ workers[p] = "pausedDying"

HasWorkflow(w) ==
    w \in DOMAIN workflowStates
\* a workflow whose steps are all process steps
ProcessOnly(w) ==
    \A i \in 1..Len(Steps(workflowStates[w].type)) :
        Steps(workflowStates[w].type)[i].type = "process"
\* the record of the i-th process the workflow started is in state s
ProcessIs(w, i, s) ==
    /\ InRegistry(workflowStates[w].processes[i])
    /\ activeProcesses[workflowStates[w].processes[i]].state = s

\* C5: COMPLETED, FAILED and STOPPED are absorbing for a workflow record: once
\* a workflow is in one of them its state never changes again.
C5_WorkflowTerminalAbsorbing ==
    [][\A w \in DOMAIN workflowStates :
          workflowStates[w].state \in WfTerminal
              => workflowStates'[w].state = workflowStates[w].state]_vars

\* C6: when stopWorkflow returns true the workflow is STOPPED with its end
\* timestamp set and every process of its list that is still in the registry
\* is COMPLETED or ERROR, also when a stopProcess of the loop returned false.
C6_StopWorkflowStopsAll ==
    [][(task.op = "stopWorkflow" /\ task' = Idle) =>
          LET wf == workflowStates'[task.wf]
          IN  /\ wf.state = "stopped"
              /\ wf.ended
              /\ \A i \in 1..Len(wf.processes) :
                    wf.processes[i] \in DOMAIN activeProcesses'
                        => activeProcesses'[wf.processes[i]].state \in Terminal]_vars

\* stopWorkflow has returned for a workflow whose first process had been
\* purged (its stopProcess returned false) and whose second process was
\* stopped by the loop
C6_Witness ==
    /\ task = Idle
    /\ \E w \in DOMAIN workflowStates :
          /\ workflowStates[w].state = "stopped"
          /\ workflowStates[w].ended
          /\ Len(workflowStates[w].processes) = 2
          /\ ~InRegistry(workflowStates[w].processes[1])
          /\ ProcessIs(w, 2, COMPLETED)
          /\ workflowStates[w].processes[2] \in purgeTimers

\* C7: a workflow enters 'running' only from 'created' and only by
\* startWorkflow; startWorkflow on an unknown id or on a workflow in any other
\* state changes nothing; the step loop of a workflow is started at most once.
C7_StartOnlyCreated ==
    /\ [][\A w \in WfIds :
            /\ (HasWorkflow(w) /\ workflowStates[w].state # "running"
                  /\ workflowStates'[w].state = "running")
                  => workflowStates[w].state = "created"
            /\ (startWorkflow(w) /\ ~(HasWorkflow(w) /\ workflowStates[w].state = "created"))
                  => UNCHANGED <<activeProcesses, nextProc, workers, purgeTimers,
                                 workflowStates, nextWf, wfLoop, subPolls, task>>]_vars
    /\ [](\A w \in DOMAIN workflowStates : workflowStates[w].starts <= 1)

\* a workflow that was started and has since failed, with calls left over for
\* further startWorkflow requests on it
C7_Witness ==
    /\ calls >= 3
    /\ nextWf = 2
    /\ HasWorkflow(1)
    /\ workflowStates[1].starts = 1
    /\ workflowStates[1].state = "failed"
    /\ DOMAIN activeProcesses = {1}

\* C8: stopWorkflow on a workflow that is COMPLETED, FAILED or STOPPED returns
\* false, stops no process and leaves the workflow record unchanged.
C8_StopTerminalRejected ==
    [][\A w \in DOMAIN workflowStates :
          (workflowStates[w].state \in WfTerminal /\ stopWorkflow(w))
              => UNCHANGED <<workflowStates, activeProcesses, workers, task>>]_vars

\* the worker of the workflow's latest process step exited with a non-zero code
LastWorkerFailed(w) ==
    LET wf == workflowStates[w]
    IN  /\ Len(wf.processes) > 0
        /\ ProcessIs(w, Len(wf.processes), ERROR)
        /\ activeProcesses[wf.processes[Len(wf.processes)]].error = ExitMessage("fail")

\* C9: in a workflow of process steps, when the workers of steps 0..k-1 exited
\* with code 0 and the worker of step k exits non-zero, currentStep is k, the
\* processes list holds exactly k+1 ids, no further worker is started, and the
\* workflow ends FAILED with the error captured.
C9_FailedAtStepK ==
    /\ [](\A w \in DOMAIN workflowStates :
            (ProcessOnly(w) /\ LastWorkerFailed(w)) =>
                LET wf == workflowStates[w]
                IN  /\ wf.currentStep = Len(wf.processes) - 1
                    /\ \A i \in 1..(Len(wf.processes) - 1) : ProcessIs(w, i, COMPLETED)
                    /\ wfLoop[w] \in {"poll", "none"}
                    /\ wfLoop[w] = "none" => wf.state = "failed" /\ wf.error = "procfailed"
                    /\ wfLoop[w] = "poll" => wf.state = "running")
    /\ \A w \in WfIds :
          (HasWorkflow(w) /\ ProcessOnly(w) /\ LastWorkerFailed(w))
              ~> (HasWorkflow(w) /\ workflowStates[w].state = "failed" /\ wfLoop[w] = "none")

\* the first worker exited 0, the second non-zero: FAILED at currentStep 1 with
\* two ids
C9_Witness ==
    \E w \in DOMAIN workflowStates :
        /\ ProcessOnly(w)
        /\ LastWorkerFailed(w)
        /\ workflowStates[w].state = "failed"
        /\ workflowStates[w].currentStep = 1
        /\ Len(workflowStates[w].processes) = 2
        /\ ProcessIs(w, 1, COMPLETED)

\* every step of the workflow has a worker and every worker exited with code 0
AllWorkersSucceeded(w) ==
    LET wf == workflowStates[w]
    IN  /\ Len(wf.processes) = Len(Steps(wf.type))
        /\ \A i \in 1..Len(wf.processes) : ProcessIs(w, i, COMPLETED)

\* C10: a workflow is COMPLETED only with currentStep at the end of its step
\* list (exactly n, with n workers, for n process steps); a workflow of n
\* process steps whose n workers all exited with code 0 and that is never
\* stopped eventually is COMPLETED with currentStep = n.
C10_CompletedAtEnd ==
    /\ [](\A w \in DOMAIN workflowStates :
            workflowStates[w].state = "completed" =>
                /\ workflowStates[w].currentStep >= Len(Steps(workflowStates[w].type))
                /\ ProcessOnly(w) =>
                      /\ workflowStates[w].currentStep = Len(Steps(workflowStates[w].type))
                      /\ Len(workflowStates[w].processes) = workflowStates[w].currentStep)
    /\ \A w \in WfIds :
          (HasWorkflow(w) /\ ProcessOnly(w) /\ AllWorkersSucceeded(w))
              ~> (/\ HasWorkflow(w)
                  /\ workflowStates[w].state = "completed"
                  /\ workflowStates[w].currentStep = Len(Steps(workflowStates[w].type)))

\* a workflow of two process steps is COMPLETED with currentStep 2
C10_Witness ==
    \E w \in DOMAIN workflowStates :
        /\ ProcessOnly(w)
        /\ AllWorkersSucceeded(w)
        /\ workflowStates[w].state = "completed"
        /\ workflowStates[w].currentStep = 2

\* C11: the currentStep of a workflow record never decreases from one state to
\* the next, whatever steps run and whether or not the workflow is stopped.
C11_CurrentStepMonotone ==
    [][\A w \in DOMAIN workflowStates :
          workflowStates'[w].currentStep >= workflowStates[w].currentStep]_vars

\* a workflow with a decision step that was stopped while its second worker
\* ran: the index moved past the decision step and once more after the stop
C11_Witness ==
    \E w \in DOMAIN workflowStates :
        /\ workflowStates[w].type = "incident-response"
        /\ workflowStates[w].state = "stopped"
        /\ Len(workflowStates[w].processes) = 2
        /\ workflowStates[w].currentStep = 4

\* the step loop of workflow w starts a worker in this step
StartsWorkerFor(w) ==
    task'.op = "startProcess" /\ task'.wf = w /\ task.op # "startProcess"
\* processes started by the step loop of w whose record is not COMPLETED or
\* ERROR, the one being started included
NonTerminalOf(w) ==
    LET ps == workflowStates[w].processes
    IN  Cardinality({i \in 1..Len(ps) :
                        InRegistry(ps[i]) /\ activeProcesses[ps[i]].state \notin Terminal})
          + (IF task.op = "startProcess" /\ task.wf = w THEN 1 ELSE 0)

\* a workflow without parallel steps
NoParallel(w) ==
    \A i \in 1..Len(Steps(workflowStates[w].type)) :
        Steps(workflowStates[w].type)[i].type # "parallel"

\* C12: in a workflow without parallel steps the step loop starts the worker
\* of the next process step only after its poll has seen the record of the
\* previous one COMPLETED, and at any time at most one process started by the
\* loop is non-terminal.
C12_StrictSequence ==
    /\ [][\A w \in DOMAIN workflowStates : NoParallel(w) =>
            /\ StartsWorkerFor(w) =>
                  \/ Len(workflowStates[w].processes) = 0
                  \/ wfLoop[w] = "immediate"
            /\ (wfLoop[w] = "poll" /\ wfLoop'[w] = "immediate") =>
                  ProcessIs(w, Len(workflowStates[w].processes), COMPLETED)]_vars
    /\ [](\A w \in DOMAIN workflowStates : NoParallel(w) => NonTerminalOf(w) <= 1)

\* the step loop of workflow w stands at a parallel step
AtParallelStep(w) ==
    LET wf == workflowStates[w]
    IN  /\ wf.currentStep < Len(Steps(wf.type))
        /\ Steps(wf.type)[wf.currentStep + 1].type = "parallel"
\* positions in the process list of w of the processes of its current parallel step
SubStepProcesses(w) ==
    LET wf == workflowStates[w]
        k == Len(Steps(wf.type)[wf.currentStep + 1].steps)
    IN  {i \in 1..Len(wf.processes) : i > Len(wf.processes) - k}
\* the worker of a sub-step of the parallel step of w exited with a non-zero code
SubStepFailed(w) ==
    /\ AtParallelStep(w)
    /\ wfLoop[w] = "join"
    /\ \E i \in SubStepProcesses(w) : ProcessIs(w, i, ERROR)

\* C13: a workflow leaves a parallel step only by advancing currentStep by 1
\* with the process of every sub-step COMPLETED, whatever the order in which
\* they completed; when a sub-step fails the index stays, and the workflow
\* becomes FAILED with the error of a failed sub-step.
C13_ParallelJoin ==
    /\ [][\A w \in DOMAIN workflowStates : AtParallelStep(w) =>
            LET wf == workflowStates[w]
                after == workflowStates'[w]
                k == Len(Steps(wf.type)[wf.currentStep + 1].steps)
            IN  /\ after.currentStep # wf.currentStep =>
                      /\ after.currentStep = wf.currentStep + 1
                      /\ after.state # "failed"
                      /\ Cardinality(SubStepProcesses(w)) = k
                      /\ \A i \in SubStepProcesses(w) : ProcessIs(w, i, COMPLETED)
                /\ (wf.state # "failed" /\ after.state = "failed") =>
                      /\ after.currentStep = wf.currentStep
                      /\ \/ after.error = "capacity" /\ wfLoop[w] # "join"
                         \/ /\ after.error = "procfailed"
                            /\ \E i \in SubStepProcesses(w) :
                                  /\ wf.processes[i] = after.errorId
                                  /\ ProcessIs(w, i, ERROR)]_vars
    /\ \A w \in WfIds :
          (HasWorkflow(w) /\ SubStepFailed(w))
              ~> (/\ HasWorkflow(w)
                  /\ AtParallelStep(w)
                  /\ workflowStates[w].state = "failed"
                  /\ workflowStates[w].error = "procfailed")

\* one workflow has passed its parallel step with both sub-step processes
\* COMPLETED; a second one, whose sub-steps then found the registry full, is
\* FAILED at its parallel step
C13_Witness ==
    \E w, v \in DOMAIN workflowStates :
        /\ workflowStates[w].type = "malware-investigation"
        /\ workflowStates[w].currentStep >= 3
        /\ Len(workflowStates[w].processes) = 2
        /\ \A i \in 1..2 : ProcessIs(w, i, COMPLETED)
        /\ AtParallelStep(v)
        /\ workflowStates[v].state = "failed"

\* the step loop of workflow w stands at a decision step
AtDecisionStep(w) ==
    LET wf == workflowStates[w]
    IN  /\ wf.currentStep < Len(Steps(wf.type))
        /\ Steps(wf.type)[wf.currentStep + 1].type = "decision"
\* the branch that the decision step at the current index of w takes
TakenBranch(w) ==
    Steps(workflowStates[w].type)[workflowStates[w].currentStep + 1].branches[1]
\* the skip count of a branch, 1 when the branch has none
SkipCountOf(branch) ==
    IF branch.skipCount = 0 THEN 1 ELSE branch.skipCount

\* C14: a decision step at index i that takes a skip branch with skip count N
\* (1 when absent) advances currentStep by exactly N: the next step executed
\* is the one at index i+N.
C14_SkipAdvancesByCount ==
    [][\A w \in DOMAIN workflowStates :
          (/\ AtDecisionStep(w)
           /\ TakenBranch(w).action = "skip"
           /\ workflowStates'[w].currentStep # workflowStates[w].currentStep)
              => workflowStates'[w].currentStep =
                     workflowStates[w].currentStep + SkipCountOf(TakenBranch(w))]_vars

\* C15: a decision step at index i that takes a branch whose action is not
\* skip advances currentStep by exactly 1: the next step executed is the one
\* at index i+1.
C15_ExecuteAdvancesByOne ==
    [][\A w \in DOMAIN workflowStates :
          (/\ AtDecisionStep(w)
           /\ TakenBranch(w).action # "skip"
           /\ workflowStates'[w].currentStep # workflowStates[w].currentStep)
              => workflowStates'[w].currentStep = workflowStates[w].currentStep + 1]_vars

\* C16: a record enters PAUSED only from RUNNING and only if its type is
\* disk-imaging, network-capture or log-analysis; no record of type
\* memory-dump or malware-scan is ever PAUSED.
C16_PausedOnlyFromRunning ==
    /\ [][\A p \in ProcIds :
            (/\ p \in DOMAIN activeProcesses'
             /\ activeProcesses'[p].state = PAUSED
             /\ ~(InRegistry(p) /\ activeProcesses[p].state = PAUSED))
                => /\ InRegistry(p)
                   /\ activeProcesses[p].state = RUNNING
                   /\ activeProcesses[p].type \in
                          {"disk-imaging", "network-capture", "log-analysis"}]_vars
    /\ [](\A p \in DOMAIN activeProcesses :
              activeProcesses[p].type \in {"memory-dump", "malware-scan"}
                  => activeProcesses[p].state # PAUSED)

\* a log-analysis record is PAUSED next to the RUNNING memory-dump record of a
\* workflow, with no call left
C16_Witness ==
    /\ calls = MaxCalls
    /\ \E p, q \in DOMAIN activeProcesses :
          /\ activeProcesses[p].type = "log-analysis"
          /\ activeProcesses[p].state = PAUSED
          /\ activeProcesses[q].type = "memory-dump"
          /\ activeProcesses[q].state = RUNNING

\* the record of p passes every test of pauseProcess
PauseAccepted(p) ==
    /\ InRegistry(p)
    /\ activeProcesses[p].state = RUNNING
    /\ activeProcesses[p].type \in {"disk-imaging", "network-capture", "log-analysis"}
    /\ activeProcesses[p].pid

\* C17: pauseProcess(id) stops the worker and writes PAUSED (returns true)
\* exactly when the record exists, is RUNNING, has a pausable type and a pid;
\* in every other case it changes neither a record nor a worker (returns
\* false).
C17_PauseExactlyWhenAllowed ==
    [][\A p \in ProcIds : pauseProcess(p) =>
          IF PauseAccepted(p)
          THEN /\ activeProcesses' = [activeProcesses EXCEPT ![p].state = PAUSED]
               /\ workers[p] = "alive"
               /\ workers' = [workers EXCEPT ![p] = "paused"]
          ELSE UNCHANGED <<activeProcesses, workers>>]_vars

\* the disk-imaging process of a workflow's first step is PAUSED, its worker
\* stopped, and one more call was made
C17_Witness ==
    /\ calls = MaxCalls
    /\ \E w \in DOMAIN workflowStates :
          /\ workflowStates[w].type = "evidence-collection"
          /\ Len(workflowStates[w].processes) = 1
          /\ ProcessIs(w, 1, PAUSED)
          /\ workers[workflowStates[w].processes[1]] = "paused"

\* C18: resumeProcess(id) continues the worker and writes RUNNING (returns
\* true) exactly when the record exists and is PAUSED, and otherwise changes
\* neither a record nor a worker (returns false); pauseProcess and
\* resumeProcess write the state alone, so a pause followed by a resume leaves
\* the record RUNNING with the progress it had.
C18_ResumeExactlyWhenPaused ==
    [][\A p \in ProcIds :
          /\ resumeProcess(p) =>
                IF InRegistry(p) /\ activeProcesses[p].state = PAUSED
                THEN /\ activeProcesses' = [activeProcesses EXCEPT ![p].state = RUNNING]
                     /\ activeProcesses'[p].progress = activeProcesses[p].progress
                     /\ workers[p] = "paused"
                     /\ workers' = [workers EXCEPT ![p] = "alive"]
                ELSE UNCHANGED <<activeProcesses, workers>>
          /\ (pauseProcess(p) /\ PauseAccepted(p)) =>
                /\ activeProcesses'[p].state = PAUSED
                /\ activeProcesses'[p].progress = activeProcesses[p].progress]_vars

\* after startProcess, pauseProcess and resumeProcess the one record is
\* RUNNING at the progress 50 its worker had reported
C18_Witness ==
    /\ calls = 3
    /\ nextProc = 2
    /\ InRegistry(1)
    /\ activeProcesses[1].state = RUNNING
    /\ activeProcesses[1].progress = 50
    /\ workers[1] = "alive"

\* C19: the exit event of a worker whose record is in the registry and not
\* yet COMPLETED or ERROR makes the record COMPLETED with progress 100 when the
\* exit code is 0 and ERROR with a message naming exit code and signal
\* otherwise, and sets the end timestamp in both cases.
C19_ExitSetsTerminal ==
    [][\A p \in ProcIds, kind \in ExitKinds :
          (/\ monitorExit(p, kind)
           /\ InRegistry(p)
           /\ activeProcesses[p].state \notin Terminal)
              => /\ activeProcesses'[p].ended
                 /\ IF kind = "ok"
                    THEN /\ activeProcesses'[p].state = COMPLETED
                         /\ activeProcesses'[p].progress = 100
                    ELSE /\ activeProcesses'[p].state = ERROR
                         /\ activeProcesses'[p].error \in
                                {"Process exited with code 1 (signal: null)",
                                 "Process exited with code null (signal: SIGTERM)"}]_vars

\* a worker that was paused and resumed has exited with code 0: its record is
\* COMPLETED at progress 100 and was never stopped
C19_Witness ==
    /\ calls = 3
    /\ nextProc = 2
    /\ InRegistry(1)
    /\ activeProcesses[1].state = COMPLETED
    /\ activeProcesses[1].progress = 100
    /\ activeProcesses[1].ended
    /\ workers[1] = "done"
    /\ purgeTimers = {}

\* C20: startProcess of a known type is rejected for capacity only when
\* maxConcurrent records are non-terminal: with fewer non-terminal records it
\* allocates a record, also while terminal records await their purge.
C20_CapacityCountsNonTerminal ==
    [][\A t \in StartInputs \cap ProcessTypes :
          (startProcess(t) /\ NonTerminalCount < maxConcurrent)
              => /\ nextProc \in DOMAIN activeProcesses'
                 /\ activeProcesses'[nextProc].state = INITIALIZING]_vars

\* C21: every process record that reaches COMPLETED or ERROR, by stopProcess
\* or by the worker's exit callback, is eventually removed from the registry
\* by the retention timer.
C21_TerminalEventuallyPurged ==
    \A p \in ProcIds :
        (InRegistry(p) /\ activeProcesses[p].state \in Terminal) ~> ~InRegistry(p)

\* C22: after n appends to the log of one process its buffer holds exactly the
\* last min(n, 1000) entries appended, in the order they were appended: the
\* length never exceeds the cap and an overflow evicts the oldest entry only.
C22_LastThousandInOrder ==
    \A p \in DOMAIN processLogs :
        LET buf == processLogs[p]
        IN  /\ Len(buf) = Min(logged[p], LogCap)
            /\ \A i \in 1..Len(buf) : buf[i].seq = logged[p] - Len(buf) + i

\* the buffer of a stopped worker after more than 1000 appends, a progress
\* milestone among them
C22_Witness ==
    /\ 1 \in DOMAIN processLogs
    /\ logged[1] > LogCap
    /\ Len(processLogs[1]) = LogCap
    /\ processLogs[1][LogCap].text = "Process cleanup completed"
    /\ \E i \in 1..LogCap : processLogs[1][i].text = "Progress: n%"

\* C23: the progress of every process record is within 0..100 in every
\* reachable state: a progress update stores max(0, min(pct, 100)) of the
\* percentage it is given, and every other change of a progress stores 100.
C23_ProgressInRange ==
    /\ [](\A p \in DOMAIN activeProcesses : activeProcesses[p].progress \in 0..100)
    /\ [][\A p \in ProcIds :
              (InRegistry(p) /\ InRegistry(p)'
               /\ activeProcesses[p].progress' # activeProcesses[p].progress)
              => \/ activeProcesses[p].progress' = 100
                 \/ /\ activeProcesses[p].state' = activeProcesses[p].state
                    /\ \E pct \in PctInputs \cup ProgressInputs :
                           activeProcesses[p].progress' = Max(0, Min(pct, 100))]_vars

\* a running process whose progress was updated with -25 and then with 120
C23_Witness ==
    \E p \in DOMAIN activeProcesses :
        /\ activeProcesses[p].state = RUNNING
        /\ activeProcesses[p].progress = 100
        /\ p \in DOMAIN processLogs
        /\ \E i \in 1..Len(processLogs[p]) :
               processLogs[p][i].text = "Progress: n%" /\ processLogs[p][i].n < 0

\* the progress lines a step appends to the log of p, given the raw lines it
\* appends first
ProgressLinesAdded(p, raw) ==
    logged[p]' - logged[p] - raw
\* the last entry of the log of p is the progress line for the stored progress
LastLineIsStored(p) ==
    /\ p \in DOMAIN processLogs'
    /\ processLogs[p]' # << >>
    /\ LET last == processLogs[p]'[Len(processLogs[p]')]
       IN  last.text = "Progress: n%" /\ last.n = activeProcesses[p].progress'

\* C24: a progress update of a known process, by an API caller or by the stdout
\* callback, appends one progress line exactly when the progress it stores (the
\* clamped value) is a 25% milestone, and the line carries the stored progress;
\* an update of an unknown id changes nothing.
C24_MilestoneOfStoredProgress ==
    [][/\ \A p \in ProcIds, pct \in PctInputs :
              updateProgress(p, pct)
              => IF InRegistry(p)
                 THEN /\ ProgressLinesAdded(p, 0)
                             = (IF activeProcesses[p].progress' % 25 = 0 THEN 1 ELSE 0)
                      /\ ProgressLinesAdded(p, 0) = 1 => LastLineIsStored(p)
                 ELSE UNCHANGED <<activeProcesses, workers, purgeTimers, processLogs, logged>>
       /\ \A p \in ProcIds, pct \in ProgressInputs :
              (monitorStdoutLogged(p, pct) /\ InRegistry(p))
              => /\ ProgressLinesAdded(p, 1)
                        = (IF activeProcesses[p].progress' % 25 = 0 THEN 1 ELSE 0)
                 /\ ProgressLinesAdded(p, 1) = 1 => LastLineIsStored(p)]_vars

\* C25: stopProcess for an id that is not in the registry returns false at
\* once and leaves the registry, every record, every log buffer and the purge
\* timers as they are: no record and no log buffer is created for the id.
C25_StopUnknownChangesNothing ==
    [][\A p \in ProcIds :
           (stopProcessLogged(p) /\ ~InRegistry(p))
           => /\ UNCHANGED <<activeProcesses, workers, processLogs, logged, purgeTimers>>
              /\ task' = Idle]_vars

\* a running process with its three start lines, after a further call that
\* changed neither the registry nor a log buffer
C25_Witness ==
    /\ calls >= 2
    /\ DOMAIN activeProcesses = {1}
    /\ activeProcesses[1].state = RUNNING
    /\ DOMAIN processLogs = {1}
    /\ logged[1] = 3
    /\ purgeTimers = {}
    /\ task = Idle

\* C26: createWorkflow with a known type adds exactly one workflow record, in
\* state created with currentStep 0 and an empty processes list, and starts no
\* worker; with an unknown type it leaves the workflow registry unchanged.
C26_CreateAddsOneCreated ==
    [][\A t \in WorkflowInputs :
           createWorkflow(t)
           => IF t \in WorkflowTypes
              THEN /\ \E w \in WfIds \ DOMAIN workflowStates :
                          /\ DOMAIN workflowStates' = DOMAIN workflowStates \cup {w}
                          /\ workflowStates[w]'.type = t
                          /\ workflowStates[w]'.state = "created"
                          /\ workflowStates[w]'.currentStep = 0
                          /\ workflowStates[w]'.processes = << >>
                   /\ \A w \in DOMAIN workflowStates : workflowStates[w]' = workflowStates[w]
                   /\ UNCHANGED <<activeProcesses, workers, wfLoop>>
              ELSE UNCHANGED workflowStates]_vars

\* a second workflow was created while the first one runs a worker
C26_Witness ==
    /\ DOMAIN workflowStates = {1, 2}
    /\ workflowStates[1].state = "running"
    /\ workflowStates[1].processes # << >>
    /\ workflowStates[2].state = "created"
    /\ workflowStates[2].currentStep = 0
    /\ workflowStates[2].processes = << >>
    /\ wfLoop[2] = "none"

\* s is a prefix of t
IsPrefix(s, t) ==
    Len(s) <= Len(t) /\ SubSeq(t, 1, Len(s)) = s

\* C27: the processes list of a workflow is append-only: no step removes a
\* workflow record, and every step leaves the list a prefix of its next value,
\* also when a process it names is purged and when the workflow is stopped or
\* failed.
C27_ProcessesAppendOnly ==
    [][\A w \in DOMAIN workflowStates :
           /\ w \in DOMAIN workflowStates'
           /\ IsPrefix(workflowStates[w].processes, workflowStates[w]'.processes)]_vars

\* a stopped or failed workflow that ran two processes, the first one purged
C27_Witness ==
    \E w \in DOMAIN workflowStates :
        /\ workflowStates[w].state \in {"stopped", "failed"}
        /\ Len(workflowStates[w].processes) >= 2
        /\ workflowStates[w].processes[1] \notin DOMAIN activeProcesses

\* the alerts of one rule, in the order they were written
IsOffHourAlert(alert) ==
    alert.rule = "off-hours"
IsUserAlert(alert) ==
    alert.rule = "anomalous-user"
\* the UTC hour of a record's timestamp
UtcHour(a) ==
    (a.timestamp.hour - a.timestamp.offset + 24) % 24
\* a key-extraction record outside the working hours 8..17
Qualifies(a) ==
    /\ a.artifact_type = "serpent_xts_key"
    /\ (UtcHour(a) < 8 \/ UtcHour(a) >= 18)

\* C28: the off-hours rule writes one alert for each artifact record of the
\* key-extraction type whose UTC hour h has h < 8 or h >= 18, naming its
\* snapshot, in the order of the records, and no alert for any other record.
C28_OffHoursExactly ==
    rules.evaluated
    => LET written == SelectSeq(rules.alerts, IsOffHourAlert)
           expected == SelectSeq(rules.artifacts, Qualifies)
       IN  /\ Len(written) = Len(expected)
           /\ \A i \in 1..Len(written) :
                  /\ written[i].id = expected[i].snapshot_id
                  /\ written[i].h = UtcHour(expected[i])

\* key-extraction records at 08:00 and at 18:00: one alert, for the second
C28_Witness ==
    /\ rules.evaluated
    /\ Len(rules.artifacts) = 2
    /\ rules.artifacts[1] = [artifact_type |-> "serpent_xts_key",
                             timestamp |-> Timestamp(8, 0, 0), snapshot_id |-> 1]
    /\ rules.artifacts[2] = [artifact_type |-> "serpent_xts_key",
                             timestamp |-> Timestamp(18, 0, 0), snapshot_id |-> 2]
    /\ SelectSeq(rules.alerts, IsOffHourAlert) = <<[rule |-> "off-hours", h |-> 18, id |-> 2]>>

\* an anomaly record with the flagged score
Flagged(rec) ==
    rec.anomaly_score = 0 - 1

\* C29: the anomaly rule writes exactly one alert for each anomaly record whose
\* score is -1, naming its user, in the order of the records, and none for
\* any other record, whatever the artifact records are.
C29_OneAlertPerFlagged ==
    rules.evaluated
    => LET written == SelectSeq(rules.alerts, IsUserAlert)
           expected == SelectSeq(rules.anomalies, Flagged)
       IN  /\ Len(written) = Len(expected)
           /\ \A i \in 1..Len(written) : written[i].id = expected[i].user_id

\* two flagged records of one user and an off-hours artifact: two user alerts
C29_Witness ==
    /\ rules.evaluated
    /\ rules.anomalies = <<[user_id |-> 1, anomaly_score |-> 0 - 1],
                           [user_id |-> 1, anomaly_score |-> 0 - 1]>>
    /\ Len(SelectSeq(rules.alerts, IsUserAlert)) = 2
    /\ Len(SelectSeq(rules.alerts, IsOffHourAlert)) = 1

\* C30: a GET /health request that the rate limiter lets through is answered
\* with status 200 whatever x-api-key header it carries, none and a wrong one
\* included.
C30_HealthNeedsNoKey ==
    \A i \in 1..Len(http) :
        (http[i].path = "/health" /\ ~http[i].limited) => http[i].status = 200

\* C31: a poll tick of a process step that finds its workflow no longer
\* running fails the step with the interruption error and leaves currentStep
\* as it is, also when the polled process is COMPLETED at that tick.
C31_InterruptedPollFails ==
    [][\A w \in WfIds :
           (pollTick(w) /\ workflowStates[w].state # "running")
           => /\ workflowStates[w]'.currentStep = workflowStates[w].currentStep
              /\ workflowStates[w]'.state = "failed"
              /\ workflowStates[w]'.error = "interrupted"]_vars

\* C32: a step that moves a workflow to failed changes no process record and
\* signals no worker: every process of the registry keeps its record, a
\* worker that is still running is not stopped, and no purge is scheduled.
C32_FailureStopsNothing ==
    [][\A w \in DOMAIN workflowStates :
           (workflowStates[w].state # "failed" /\ workflowStates[w]'.state = "failed")
           => /\ \A p \in DOMAIN activeProcesses :
                     /\ p \in DOMAIN activeProcesses'
                     /\ activeProcesses[p]' = activeProcesses[p]
                     /\ workers[p]' = workers[p]
              /\ task'.op # "stopProcess"
              /\ UNCHANGED purgeTimers]_vars

\* a failed workflow with a process of its list still running
C32_Witness ==
    \E w \in DOMAIN workflowStates :
        /\ workflowStates[w].state = "failed"
        /\ \E i \in 1..Len(workflowStates[w].processes) :
               LET p == workflowStates[w].processes[i]
               IN  /\ p \in DOMAIN activeProcesses
                   /\ activeProcesses[p].state = RUNNING
                   /\ workers[p] = "alive"

\* the step at currentStep of workflow w is a process step
AtProcessStep(w) ==
    /\ HasWorkflow(w)
    /\ workflowStates[w].currentStep < Len(Steps(workflowStates[w].type))
    /\ Steps(workflowStates[w].type)[workflowStates[w].currentStep + 1].type = "process"
\* this step is the step loop of w dispatching a process step
DispatchesProcessStep(w) ==
    /\ AtProcessStep(w)
    /\ \/ startWorkflow(w) /\ workflowStates[w].state = "created"
       \/ runImmediate(w) /\ workflowStates[w].state = "running"
\* w failed at a process step that the capacity test rejected
RejectedForCapacity(w) ==
    /\ AtProcessStep(w)
    /\ workflowStates[w].state = "failed"
    /\ workflowStates[w].error = "capacity"

\* C33: a process step dispatched while the registry holds maxConcurrent
\* records fails its workflow at once with the capacity error: no record and no
\* worker is created, nothing is appended to the processes list, and the step
\* loop ends, so the start is not made later when a slot is free.
C33_CapacityRejectsAtOnce ==
    /\ [][\A w \in WfIds :
              (DispatchesProcessStep(w) /\ Cardinality(DOMAIN activeProcesses) >= maxConcurrent)
              => /\ workflowStates[w]'.state = "failed"
                 /\ workflowStates[w]'.error = "capacity"
                 /\ workflowStates[w]'.processes = workflowStates[w].processes
                 /\ wfLoop[w]' = "none"
                 /\ task' = Idle
                 /\ UNCHANGED <<activeProcesses, nextProc, workers>>]_vars
    /\ [][\A w \in WfIds :
              RejectedForCapacity(w)
              => /\ workflowStates[w]' = workflowStates[w]
                 /\ wfLoop[w]' = "none"]_vars

\* the second workflow was rejected while the first one holds the slots
C33_Witness ==
    /\ HasWorkflow(1) /\ HasWorkflow(2)
    /\ Len(workflowStates[1].processes) = maxConcurrent
    /\ RejectedForCapacity(2)
    /\ workflowStates[2].processes = << >>
    /\ wfLoop[2] = "none"

\* the index a decision step of w leaves when its first branch is taken: the
\* branch's own advance and the move to the next step
FirstBranchTarget(w) ==
    LET first == Steps(workflowStates[w].type)[workflowStates[w].currentStep + 1].branches[1]
    IN  workflowStates[w].currentStep
        + (IF first.action = "skip" THEN SkipCountOf(first) ELSE 1) + 1

\* C34: a decision step always takes the first branch of its list: in whatever
\* state the workflow and the processes are, the index it leaves is the one
\* the first branch gives, whatever the other branches are.
C34_FirstBranchAlways ==
    [][\A w \in DOMAIN workflowStates :
           (AtDecisionStep(w)
            /\ workflowStates[w]'.currentStep # workflowStates[w].currentStep)
           => workflowStates[w]'.currentStep = FirstBranchTarget(w)]_vars

\* a workflow past a decision step whose two branches leave different indexes,
\* taken while another process was in the registry
C34_Witness ==
    \E w \in DOMAIN workflowStates :
        /\ workflowStates[w].type = "malware-investigation"
        /\ workflowStates[w].currentStep = 2
        /\ workflowStates[w].processes = << >>
        /\ activeProcesses # << >>


Has(seq, x) ==
    \E i \in 1..Len(seq) : seq[i] = x
FailureLines ==
    {"Metadata step failed", "Log analysis failed", "Evidence correlation failed"}
Failed(run) ==
    \E line \in FailureLines : Has(run.console, line)
\* the steps of a run were started in the fixed order, each after the
\* 'stepDone' of the one before
InOrder(run) ==
    /\ IsPrefix(run.started, StepOrder)
    /\ IsPrefix(run.emitted, <<"metadata_collected", "logs_analyzed", "evidence_correlated">>)
    /\ Has(run.started, "analyzeLogs") => Has(run.emitted, "metadata_collected")
    /\ Has(run.started, "evaluate") => Has(run.emitted, "logs_analyzed")
    /\ Has(run.started, "correlateEvidence") => Has(run.started, "evaluate") /\ ~Failed(run)
    /\ Has(run.emitted, "evidence_correlated") => Has(run.started, "correlateEvidence")
StartFails(type) ==
    AtCapacity \/ type \notin ProcessTypes
\* C36: a startProcess call that fails leaves the registry as it was before
\* the call, and no record is left in INITIALIZING once the call is over.
C36_FailedStartLeavesRegistry ==
    /\ [][\A type \in StartInputs :
             (startProcess(type) /\ StartFails(type)) => UNCHANGED activeProcesses]_vars
    /\ [](task = Idle
             => \A p \in DOMAIN activeProcesses : activeProcesses[p].state # INITIALIZING)

Halted(w) ==
    w \in DOMAIN workflowStates /\ workflowStates[w].state \in {"stopping", "stopped"}
\* C37: once stopWorkflow has written 'stopping' or 'stopped', no step of the
\* model appends an id to the workflow's processes list and no startProcess
\* call is made for the workflow, whatever callbacks of its step loop were
\* pending at the stop.
C37_StoppedStartsNothing ==
    [][\A w \in WfIds :
           Halted(w)
               => /\ workflowStates'[w].processes = workflowStates[w].processes
                  /\ (task'.op = "startProcess" /\ task' # task) => task'.wf # w]_vars
\* a stopped workflow whose poll tick saw the stopped worker COMPLETED, moved
\* to the next step and whose setImmediate callback has run and returned
C37_Witness ==
    \E w \in DOMAIN workflowStates :
        /\ workflowStates[w].state = "stopped"
        /\ workflowStates[w].currentStep > 0
        /\ workflowStates[w].currentStep < Len(Steps(workflowStates[w].type))
        /\ Len(workflowStates[w].processes) = 1
        /\ wfLoop[w] = "none"
        /\ task = Idle

====
